---- MODULE Spec2Model ----
(***************************************************************************)
(* Text-region detection engine of MangaWebTranslator.                     *)
(*                                                                         *)
(*   services/ocr/engines/comic_text_detector_adapter.py  detect_regions   *)
(*   services/ocr/ocr_preprocess.py                   preprocess_for_ocr   *)
(*   services/ocr/region_ocr_pipeline.py   suppress_nested_boxes, pad_crop,*)
(*                                         detect_text_regions             *)
(*   ui/components/async_workers.py   AsyncImageDownloadWorker, OcrWorker  *)
(*   services/dictionary/jisho.py     JishoStorage.save_jisho_response     *)
(*                                                                         *)
(* Spec covers single calls of the detection entry points, SpecCalls       *)
(* concurrent calls of detect_regions, SpecDownload the download worker on *)
(* the Qt event loop, SpecOcr the OCR worker, SpecJisho the Jisho storage. *)
(*                                                                         *)
(* Rectangles are the tuples (x, y, w, h) of the source; a TextRegion is a *)
(* record with the dataclass' fields left, top, width, height.             *)
(*                                                                         *)
(* An image is uniform (every pixel has gray value g) or a scene of solid   *)
(* rectangles on a uniform background, in which cases blur, thresholding,  *)
(* dilation and contour extraction are computed, or a page whose           *)
(* cv2.findContours / cv2.boundingRect results are an input (contours).    *)
(*                                                                         *)
(* The float comparison  inter / small_area >= subsume_ratio  is modelled  *)
(* on the rationals (subsume_ratio is a pair <<num, den>>): Python's int   *)
(* true division is correctly rounded, so for areas below 2^26 it agrees   *)
(* with the exact comparison  inter * den >= num * small_area.             *)
(***************************************************************************)
EXTENDS Integers, Sequences, FiniteSets, TLC

VARIABLES
    fn,             \* entry point that is called
    pc,             \* "call" before the call, "done" after return, "raised"
    image,          \* the image argument
    contours,       \* page images: bounding rects findContours yields, tagged
    regions,        \* suppress_nested_boxes: argument regions
    subsume_ratio,  \* suppress_nested_boxes: argument subsume_ratio
    r,              \* pad_crop: argument r
    rects_fixed,    \* detect_regions: collect_rects(th_fixed)
    rects_inv,      \* detect_regions: collect_rects(th_fixed_inv)
    rects1,         \* preprocess_for_ocr: per-setting lists of the direct mask
    rects2,         \* preprocess_for_ocr: per-setting lists of the inverse mask
    flat_rects,     \* the pool that is walked by the suppression loop
    final_rects,    \* the rectangles kept by the suppression loop
    boxes,          \* returned List[TextRegion]
    crop_box,       \* pad_crop: the box (x1, y1, x2, y2) handed to img.crop
    \* concurrent calls of detect_regions
    call_pc,        \* per call: "call", "thresholded", "collected", "done"
    call_adapter,   \* per call: the adapter instance it is invoked on
    call_image,     \* per call: the image argument
    call_boxes,     \* per call: the returned list
    frames,         \* the local variables of the running calls
    \* AsyncImageDownloadWorker and the Qt event loop it runs on
    dl_pc,          \* "idle", "constructed", "started"
    dl,             \* the worker's attributes
    dl_timers,      \* pending QTimer.singleShot(0, self._start_next) events
    dl_replies,     \* the QNetworkReply objects manager.get has returned
    dl_threads,     \* self._fallback_threads
    dl_signals,     \* manager.get calls and emitted signals, in order
    \* OcrWorker
    ocr_pc,         \* "idle", "constructed", "loop", "body", "progress",
                    \* "returned", "raised"
    ocr,            \* the worker's attributes
    ocr_run,        \* the locals of run(): done, total, position in _items
    ocr_signals,    \* emitted signals, cancel() calls and the print that
                    \* opens the body of the loop, in order
    \* JishoStorage
    jisho_json,     \* the JSON array file: whether it exists, and its entries
    jisho_ndjson,   \* the lines appended to the NDJSON file
    jisho_before,   \* the JSON array file as the last save call found it
    jisho_saves,    \* number of save_jisho_response calls so far
    \* MainWindow._onRequestOcr and its OcrWorker
    assoc_pc,       \* "idle", "running" (thread started), "emitted"
                    \* (itemFinished queued), "stored", "raised"
    panel_rects,    \* _panel_rects[panel_id]: the rectangles of the panel
    crops,          \* the crops handed to the worker, one per rectangle
    results,        \* the worker's results: one list of blocks per crop
    flat_results,   \* the list emitted with itemFinished
    blocks_with_ids, \* what setOcrBlocks received
    edits,          \* number of rectangle edits so far
    \* FileLock
    lock_dir,       \* whether the lock directory exists
    lock_owner,     \* the caller whose mkdir created it (0: nobody)
    fl              \* per caller: position, the _locked flag of its
                    \* FileLock, number of with-statements begun

detectVars == <<fn, pc, image, contours, regions, subsume_ratio, r,
                rects_fixed, rects_inv, rects1, rects2, flat_rects,
                final_rects, boxes, crop_box>>

callVars == <<call_pc, call_adapter, call_image, call_boxes, frames>>

dlVars == <<dl_pc, dl, dl_timers, dl_replies, dl_threads, dl_signals>>

ocrVars == <<ocr_pc, ocr, ocr_run, ocr_signals>>

jishoVars == <<jisho_json, jisho_ndjson, jisho_before, jisho_saves>>

assocVars == <<assoc_pc, panel_rects, crops, results, flat_results,
               blocks_with_ids, edits>>

lockVars == <<lock_dir, lock_owner, fl>>

vars == <<detectVars, callVars, dlVars, ocrVars, jishoVars, assocVars, lockVars>>

----------------------------------------------------------------------------
(* Program constants                                                       *)

fixed_threshold == 240
inverse_threshold == 300 - fixed_threshold
MinDim == 30
MaxDim == 600
MaxArea == 250000
InvMaxWidth == 150
default_subsume_ratio == <<4, 5>>          \* 0.8
pad_frac == <<6, 100>>                     \* 0.06
kernel_trials == << <<3, 5, 1>>, <<5, 10, 2>>, <<5, 15, 4>>, <<7, 7, 2>> >>

----------------------------------------------------------------------------
(* Bounds of the model                                                     *)

MaxPool == 3        \* longest regions argument of suppress_nested_boxes, and
                    \* most contours of a page in detect_regions
MaxCand == 2        \* most contours of a page over all settings of
                    \* preprocess_for_ocr
MaxUrls == 2        \* longest url list of a download worker
MaxItems == 3       \* longest item list of an OCR worker
MaxData == 2        \* longest data list of a Jisho response
MaxSaves == 2       \* most calls of save_jisho_response
NumCalls == 2       \* concurrent calls of detect_regions
NumAdapters == 2    \* adapter instances they are invoked on
MaxTrial == 2       \* last setting (0 = no dilation) that yields contours

----------------------------------------------------------------------------
(* Helpers                                                                 *)

Max2(a, b) == IF a >= b THEN a ELSE b
Min2(a, b) == IF a <= b THEN a ELSE b

SeqsUpTo(S, n) == UNION {[1..k -> S] : k \in 0..n}

Range(s) == {s[i] : i \in DOMAIN s}

RECURSIVE Concat(_)
Concat(ss) == IF ss = <<>> THEN <<>> ELSE Head(ss) \o Concat(Tail(ss))

\* int(): truncation toward zero of the quotient n / d, d > 0
TruncDiv(n, d) == IF n >= 0 THEN n \div d ELSE -((-n) \div d)

----------------------------------------------------------------------------
(* str.startswith and the f-string name prefixes, as character sequences   *)

Digit(d) == CASE d = 0 -> "0" [] d = 1 -> "1" [] d = 2 -> "2" [] d = 3 -> "3"
              [] d = 4 -> "4" [] d = 5 -> "5" [] d = 6 -> "6" [] d = 7 -> "7"
              [] d = 8 -> "8" [] d = 9 -> "9"

RECURSIVE str_int(_)
str_int(n) == IF n < 10 THEN <<Digit(n)>>
              ELSE Append(str_int(n \div 10), Digit(n % 10))

startswith(s, p) == Len(s) >= Len(p) /\ \A i \in 1..Len(p) : s[i] = p[i]

name_prefix_fixed == <<"0", "9", "_", "f", "i", "x", "e", "d">> \o str_int(fixed_threshold)
name_prefix_inv == <<"1", "0", "_", "f", "i", "x", "e", "d">> \o str_int(inverse_threshold)
                       \o <<"_", "i", "n", "v">>
\* mutant: the tag of the other mask
direct_tag == <<"0", "9", "_", "f", "i", "x", "e", "d">>

\* line 149: the literal "10_fixed"
inverted_tag == <<"1", "0", "_", "f", "i", "x", "e", "d">>

----------------------------------------------------------------------------
(* Thresholding (cv2.threshold) and contour extraction                      *)

threshold_binary(p, thresh) == IF p > thresh THEN 255 ELSE 0
threshold_binary_inv(p, thresh) == IF p > thresh THEN 0 ELSE 255

\* cv2.GaussianBlur(gray, (5, 5), 0).  A uniform image stays uniform (the
\* kernel weights sum to one); in a scene the blur acts along the edges of the
\* shapes (edge_shift)
GaussianBlur(img) == [img EXCEPT !.blurred = TRUE]

\* blurred value of a pixel whose 5-tap window (1, 4, 6, 4, 1)/16 holds the
\* weight c/16 of gray value b and the rest of gray value a
blur_mix(a, b, c) == (a * (16 - c) + b * c + 8) \div 16

\* weight of the far side of a straight edge in the window of the pixel next
\* to the edge (1 + 4) and of the pixel one step further (1)
EdgeWeights == {5, 1}

mask_value(mask, p) ==
    IF mask = "direct" THEN threshold_binary(p, fixed_threshold)
    ELSE threshold_binary_inv(p, inverse_threshold)

\* pixels by which the foreground of a solid shape (gray value inside) reaches
\* beyond its edge into a background (gray value outside) that is not
\* foreground; negative when the blur takes the shape's outer pixels away
edge_shift(mask, inside, outside, blurred) ==
    IF ~blurred THEN 0
    ELSE Cardinality({c \in EdgeWeights :
                         mask_value(mask, blur_mix(outside, inside, c)) > 0})
         - Cardinality({c \in EdgeWeights :
                         mask_value(mask, blur_mix(inside, outside, c)) = 0})

\* bounding rect of the foreground blob of shape s; a side on the image border
\* stays (BORDER_REFLECT_101 mirrors the shape's own pixels)
blob_of(img, mask, s) ==
    LET d == edge_shift(mask, s.g, img.g, img.blurred)
        x1 == IF s.x = 0 THEN 0 ELSE Max2(0, s.x - d)
        y1 == IF s.y = 0 THEN 0 ELSE Max2(0, s.y - d)
        x2 == IF s.x + s.w = img.W THEN img.W ELSE Min2(img.W, s.x + s.w + d)
        y2 == IF s.y + s.h = img.H THEN img.H ELSE Min2(img.H, s.y + s.h + d)
    IN <<x1, y1, x2 - x1, y2 - y1>>

\* the foreground blobs of a scene whose background is not foreground
blobs_of(img, mask) ==
    LET F[i \in 0..Len(img.shapes)] ==
            IF i = 0 THEN <<>>
            ELSE IF mask_value(mask, img.shapes[i].g) > 0
                 THEN Append(F[i-1], blob_of(img, mask, img.shapes[i]))
                 ELSE F[i-1]
    IN IF mask_value(mask, img.g) > 0 THEN <<>> ELSE F[Len(img.shapes)]

\* cv2.threshold of the gray (or blurred) buffer
threshold_image(img, mask) ==
    [W |-> img.W, H |-> img.H, uniform |-> img.uniform,
     scene |-> img.shapes # <<>>, mask |-> mask,
     v |-> mask_value(mask, img.g), blobs |-> blobs_of(img, mask)]

th_fixed(img) == threshold_image(img, "direct")
th_fixed_inv(img) == threshold_image(img, "inverse")

TaggedRects(cs, mask, trial) ==
    LET F[i \in 0..Len(cs)] ==
            IF i = 0 THEN <<>>
            ELSE IF cs[i].mask = mask /\ cs[i].trial = trial
                 THEN Append(F[i-1], cs[i].rect) ELSE F[i-1]
    IN F[Len(cs)]

\* lines 101-103: settings = [(1,1,0)] + kernel_sizes_iters
settings == << <<1, 1, 0>> >> \o kernel_trials

\* cv2.dilate with getStructuringElement(MORPH_RECT, (kw, kh)), anchor at the
\* kernel centre (kw \div 2, kh \div 2), applied iters times to a rectangular
\* blob: dst(x, y) is the maximum of src over x - ax .. x + kw - 1 - ax, so
\* the blob grows by kw - 1 - ax to the left and ax to the right per
\* iteration, clipped to the image
\* mutant: the blob grows across the image border
dilate_rect_unclipped(q, W, H, kw, kh, iters) ==
    LET ax == kw \div 2
        ay == kh \div 2
        x1 == q[1] - iters * (kw - 1 - ax)
        y1 == q[2] - iters * (kh - 1 - ay)
        x2 == q[1] + q[3] + iters * ax
        y2 == q[2] + q[4] + iters * ay
    IN <<x1, y1, x2 - x1, y2 - y1>>

dilate_rect(q, W, H, kw, kh, iters) ==
    LET ax == kw \div 2
        ay == kh \div 2
        x1 == Max2(0, q[1] - iters * (kw - 1 - ax))
        y1 == Max2(0, q[2] - iters * (kh - 1 - ay))
        x2 == Min2(W, q[1] + q[3] + iters * ax)
        y2 == Min2(H, q[2] + q[4] + iters * ay)
    IN <<x1, y1, x2 - x1, y2 - y1>>

\* cv2.findContours(RETR_EXTERNAL) + cv2.boundingRect on a binary image, after
\* the dilation of setting number `trial` (0 = no dilation).  A mask whose
\* background is foreground has one outer contour, the image border (shapes
\* are holes or part of it); it stays so under dilation.  An empty mask has
\* none.  The blobs of a scene lie further apart than any dilation reaches.
find_rects(bin_img, cs, trial) ==
    IF bin_img.v > 0 /\ (bin_img.uniform \/ bin_img.scene)
    THEN << <<0, 0, bin_img.W, bin_img.H>> >>
    ELSE IF bin_img.uniform THEN <<>>
    ELSE IF bin_img.scene
    THEN LET k == settings[trial + 1]
         IN [i \in 1..Len(bin_img.blobs) |->
                dilate_rect(bin_img.blobs[i], bin_img.W, bin_img.H,
                            k[1], k[2], k[3])]
    ELSE TaggedRects(cs, bin_img.mask, trial)

collect_rects(bin_img, cs) == find_rects(bin_img, cs, 0)

----------------------------------------------------------------------------
(* Intersection, size filter, suppression                                  *)

intersection_area(r1, r2) ==
    LET ix1 == Max2(r1[1], r2[1])
        iy1 == Max2(r1[2], r2[2])
        ix2 == Min2(r1[1] + r1[3], r2[1] + r2[3])
        iy2 == Min2(r1[2] + r1[4], r2[2] + r2[4])
    IN IF ix2 <= ix1 \/ iy2 <= iy1 THEN 0 ELSE (ix2 - ix1) * (iy2 - iy1)

_inter_area(a, b) ==
    LET ix1 == Max2(a.left, b.left)
        iy1 == Max2(a.top, b.top)
        ix2 == Min2(a.left + a.width, b.left + b.width)
        iy2 == Min2(a.top + a.height, b.top + b.height)
    IN IF ix2 <= ix1 \/ iy2 <= iy1 THEN 0 ELSE (ix2 - ix1) * (iy2 - iy1)

\* detect_regions, lines 78-83: the three `continue` tests
size_ok(w, h) ==
    /\ ~(w < MinDim \/ h < MinDim)
    /\ ~(w > MaxDim \/ h > MaxDim)
    /\ ~(w * h > MaxArea)

\* mutant: the inner loop starts behind i
detect_contained_later(pool, i, ratio) ==
    LET small_area == pool[i][3] * pool[i][4]
    IN \E j \in (i + 1)..Len(pool) :
          /\ ~(pool[j][3] * pool[j][4] <= small_area)
          /\ small_area > 0
          /\ intersection_area(pool[i], pool[j]) * ratio[2] >= ratio[1] * small_area

\* detect_regions, lines 85-94: is flat_rects[i] contained in a bigger entry
\* of pool?
detect_contained(pool, i, ratio) ==
    LET small_area == pool[i][3] * pool[i][4]
    IN \E j \in 1..Len(pool) :
          /\ i # j
          /\ ~(pool[j][3] * pool[j][4] <= small_area)
          /\ small_area > 0
          /\ intersection_area(pool[i], pool[j]) * ratio[2] >= ratio[1] * small_area

\* preprocess_for_ocr, lines 176-203: the same inner loop
preprocess_contained(pool, i, ratio) ==
    LET small_area == pool[i][3] * pool[i][4]
    IN \E j \in 1..Len(pool) :
          /\ i # j
          /\ ~(pool[j][3] * pool[j][4] <= small_area)
          /\ small_area > 0
          /\ intersection_area(pool[i], pool[j]) * ratio[2] >= ratio[1] * small_area

\* detect_regions, lines 75-96: size filter and suppression in one loop; the
\* inner loop walks the whole of flat_rects
detect_final_rects(flat) ==
    LET F[i \in 0..Len(flat)] ==
            IF i = 0 THEN <<>>
            ELSE IF ~size_ok(flat[i][3], flat[i][4]) THEN F[i-1]
            ELSE IF detect_contained(flat, i, default_subsume_ratio) THEN F[i-1]
            ELSE Append(F[i-1], flat[i])
    IN F[Len(flat)]

\* preprocess_for_ocr, lines 173-205
preprocess_final_rects(flat) ==
    LET F[i \in 0..Len(flat)] ==
            IF i = 0 THEN <<>>
            ELSE IF preprocess_contained(flat, i, default_subsume_ratio) THEN F[i-1]
            ELSE Append(F[i-1], flat[i])
    IN F[Len(flat)]

\* mutant: a width or height of exactly MinDim is discarded too
filter_rects_offbyone(rects, name_prefix) ==
    LET F[i \in 0..Len(rects)] ==
            IF i = 0 THEN <<>>
            ELSE LET w == rects[i][3]
                     h == rects[i][4]
                 IN IF w <= MinDim \/ h <= MinDim THEN F[i-1]
                    ELSE IF startswith(name_prefix, inverted_tag) /\ w > InvMaxWidth
                         THEN F[i-1]
                    ELSE IF w > MaxDim \/ h > MaxDim THEN F[i-1]
                    ELSE IF w * h > MaxArea THEN F[i-1]
                    ELSE Append(F[i-1], rects[i])
    IN F[Len(rects)]

\* contours_and_overlay, lines 143-157: the filter of one setting
filter_rects(rects, name_prefix) ==
    LET F[i \in 0..Len(rects)] ==
            IF i = 0 THEN <<>>
            ELSE LET w == rects[i][3]
                     h == rects[i][4]
                 IN IF w < MinDim \/ h < MinDim THEN F[i-1]
                    ELSE IF startswith(name_prefix, inverted_tag) /\ w > InvMaxWidth
                         THEN F[i-1]
                    ELSE IF w > MaxDim \/ h > MaxDim THEN F[i-1]
                    ELSE IF w * h > MaxArea THEN F[i-1]
                    ELSE Append(F[i-1], rects[i])
    IN F[Len(rects)]

\* mutant: the undilated setting runs last
contours_and_overlay_baseline_last(bin_img, name_prefix, cs) ==
    [idx \in 1..(1 + Len(kernel_trials)) |->
        filter_rects(find_rects(bin_img, cs, idx % (1 + Len(kernel_trials))),
                     name_prefix)]

\* mutant: the prefix test is made for the 5 x 10 kernel trial only
contours_and_overlay_cap_one_trial(bin_img, name_prefix, cs) ==
    [idx \in 1..(1 + Len(kernel_trials)) |->
        filter_rects(find_rects(bin_img, cs, idx - 1),
                     IF settings[idx] = <<5, 10, 2>> THEN name_prefix ELSE <<>>)]

\* contours_and_overlay: settings = [(1,1,0)] + kernel_trials, one filtered
\* list per setting
contours_and_overlay(bin_img, name_prefix, cs) ==
    [idx \in 1..(1 + Len(kernel_trials)) |->
        filter_rects(find_rects(bin_img, cs, idx - 1), name_prefix)]

\* mutant: the ratio test is strict
region_contained_strict(rs, i, ratio) ==
    LET sa == rs[i].width * rs[i].height
    IN \E j \in 1..Len(rs) :
          /\ i # j
          /\ ~(rs[j].width * rs[j].height <= sa)
          /\ _inter_area(rs[i], rs[j]) * ratio[2] > ratio[1] * sa

\* mutant: a region of equal area counts as bigger
region_contained_ties(rs, i, ratio) ==
    LET sa == rs[i].width * rs[i].height
    IN \E j \in 1..Len(rs) :
          /\ i # j
          /\ ~(rs[j].width * rs[j].height < sa)
          /\ _inter_area(rs[i], rs[j]) * ratio[2] >= ratio[1] * sa

\* mutant: the inner loop looks at the next entry only
region_contained_next(rs, i, ratio) ==
    LET sa == rs[i].width * rs[i].height
    IN \E j \in {i + 1} \cap (1..Len(rs)) :
          /\ i # j
          /\ ~(rs[j].width * rs[j].height <= sa)
          /\ _inter_area(rs[i], rs[j]) * ratio[2] >= ratio[1] * sa

\* mutant: any overlap with a bigger region counts, whatever its share
region_contained_any_overlap(rs, i, ratio) ==
    LET sa == rs[i].width * rs[i].height
    IN \E j \in 1..Len(rs) :
          /\ i # j
          /\ ~(rs[j].width * rs[j].height <= sa)
          /\ _inter_area(rs[i], rs[j]) > 0

\* suppress_nested_boxes, lines 33-42: the inner loop
region_contained(rs, i, ratio) ==
    LET sa == rs[i].width * rs[i].height
    IN \E j \in 1..Len(rs) :
          /\ i # j
          /\ ~(rs[j].width * rs[j].height <= sa)
          /\ _inter_area(rs[i], rs[j]) * ratio[2] >= ratio[1] * sa

\* suppress_nested_boxes, lines 25-45
suppress_nested_boxes(rs, ratio) ==
    LET F[i \in 0..Len(rs)] ==
            IF i = 0 THEN <<>>
            ELSE IF rs[i].width * rs[i].height <= 0 THEN F[i-1]
            ELSE IF region_contained(rs, i, ratio) THEN F[i-1]
            ELSE Append(F[i-1], rs[i])
    IN F[Len(rs)]

----------------------------------------------------------------------------
(* list.sort(key=lambda r: (r.top, r.left)): stable                        *)

key_le(a, b) == a.top < b.top \/ (a.top = b.top /\ a.left <= b.left)

\* mutant: e goes before the elements of equal key
insert_sorted_unstable(s, e) ==
    LET n == Cardinality({k \in 1..Len(s) : key_le(s[k], e) /\ ~key_le(e, s[k])})
    IN SubSeq(s, 1, n) \o <<e>> \o SubSeq(s, n + 1, Len(s))

\* position of e in the sorted list s: behind every element whose key is
\* not greater
insert_sorted(s, e) ==
    LET n == Cardinality({k \in 1..Len(s) : key_le(s[k], e)})
    IN SubSeq(s, 1, n) \o <<e>> \o SubSeq(s, n + 1, Len(s))

sort_top_left(s) ==
    LET F[i \in 0..Len(s)] == IF i = 0 THEN <<>> ELSE insert_sorted(F[i-1], s[i])
    IN F[Len(s)]

to_region(t) == [left |-> t[1], top |-> t[2], width |-> t[3], height |-> t[4]]

to_regions(ts) == [i \in 1..Len(ts) |-> to_region(ts[i])]

----------------------------------------------------------------------------
(* pad_crop, lines 48-55                                                   *)

\* mutant: the padding follows the longer side
pad_of_max(reg) == TruncDiv(Max2(reg.width, reg.height) * pad_frac[1], pad_frac[2])

\* line 50: pad = int(min(r.width, r.height) * pad_frac)
pad_of(reg) == TruncDiv(Min2(reg.width, reg.height) * pad_frac[1], pad_frac[2])

pad_crop_box(img, reg) ==
    LET pad == pad_of(reg)
    IN << Max2(0, reg.left - pad),
          Max2(0, reg.top - pad),
          Min2(img.W, reg.left + reg.width + pad),
          Min2(img.H, reg.top + reg.height + pad) >>

----------------------------------------------------------------------------
(* Inputs                                                                  *)

\* bounding rectangles a page may yield: the cases of the size filter
\* (29/30, 600/601, area 250000/250500, inverse cap 150/151) and of the
\* suppression (80% and 78% overlap, full containment, equal areas)
CandidateRects ==
    { <<10, 10, 50, 50>>, <<20, 10, 100, 50>>, <<21, 10, 100, 50>>,
      <<0, 0, 601, 400>>, <<0, 0, 600, 30>>, <<0, 0, 30, 600>>,
      <<0, 0, 29, 600>>, <<0, 0, 600, 29>>, <<0, 0, 30, 601>>,
      <<0, 0, 500, 500>>, <<0, 0, 500, 501>>,
      <<10, 10, 150, 30>>, <<10, 10, 151, 30>> }

\* regions handed to suppress_nested_boxes: a chain 30x30 in 50x50 in (80%)
\* 100x50, a 78% overlap, equal areas, a region of zero width, and one of
\* negative width and height
NestRects ==
    { <<10, 10, 30, 30>>, <<10, 10, 50, 50>>, <<20, 10, 100, 50>>,
      <<21, 10, 100, 50>>, <<10, 10, 50, 100>>, <<0, 0, 500, 500>>,
      <<10, 10, 0, 50>>, <<60, 60, -50, -50>> }

SubsumeRatios == { <<1, 2>>, <<4, 5>>, <<1, 1>> }

GrayLevels == {0, 60, 61, 128, 240, 241, 255}

UniformImages ==
    { [W |-> w, H |-> h, uniform |-> TRUE, g |-> g, shapes |-> <<>>,
       blurred |-> FALSE] :
        w \in {20, 100, 600, 700}, h \in {20, 100}, g \in GrayLevels }

PageImage ==
    [W |-> 800, H |-> 800, uniform |-> FALSE, g |-> 0, shapes |-> <<>>,
     blurred |-> FALSE]

\* scenes: solid rectangles of gray value g on a background of gray value bg
Shape(x, y, w, h, g) == [x |-> x, y |-> y, w |-> w, h |-> h, g |-> g]
Scene(W, H, bg, shapes) ==
    [W |-> W, H |-> H, uniform |-> FALSE, g |-> bg, shapes |-> shapes,
     blurred |-> FALSE]

LightLevels == {200, 255}
DarkLevels == {0, 50}

\* scenario B: one dark 200 x 100 rectangle at (50, 50)
ScenarioB ==
    { Scene(sz[1], sz[2], bg, << Shape(50, 50, 200, 100, d) >>) :
        sz \in { <<300, 200>>, <<800, 600>> }, bg \in LightLevels,
        d \in DarkLevels }

\* scenario C: two dark 100 x 100 squares in opposite corners of 800 x 600
ScenarioC ==
    { Scene(800, 600, bg, << Shape(0, 0, 100, 100, d),
                             Shape(700, 500, 100, 100, d) >>) :
        bg \in LightLevels, d \in DarkLevels }

SceneImages == ScenarioB \cup ScenarioC

CropRegions ==
    { [left |-> l, top |-> t, width |-> w, height |-> h] :
        l \in {-5, 0, 30, 120}, t \in {0, 30, 120},
        w \in {0, 10, 17, 50, 200}, h \in {0, 17, 50} }

CropImages ==
    { [W |-> w, H |-> h, uniform |-> TRUE, g |-> 255, shapes |-> <<>>,
       blurred |-> FALSE] :
        w \in {40, 100}, h \in {40, 100} }

NoRegion == [left |-> 0, top |-> 0, width |-> 0, height |-> 0]

\* a slot numbers a (mask, setting) pair in the order the pool is built:
\* all settings of the direct mask, then all settings of the inverse mask
SlotMask(s) == IF s \div (MaxTrial + 1) = 0 THEN "direct" ELSE "inverse"
SlotTrial(s) == s % (MaxTrial + 1)

\* slot assignments in call order
SlotSeqs(k, slots) ==
    { a \in [1..k -> slots] : \A i, j \in 1..k : i < j => a[i] <= a[j] }

\* contour lists of a page: each rectangle tagged with the mask and setting
\* whose findContours call yields it
TagContours(s, a) ==
    [i \in 1..Len(s) |-> [mask |-> SlotMask(a[i]), trial |-> SlotTrial(a[i]),
                          rect |-> s[i]]]

\* at most n contours in all
IsPageContours(cs, slots, n) ==
    \E k \in 0..n : \E a \in SlotSeqs(k, slots) :
        \E s \in [1..k -> CandidateRects] : cs = TagContours(s, a)

BaselineSlots == {0, MaxTrial + 1}
AllSlots == 0..(2 * (MaxTrial + 1) - 1)

----------------------------------------------------------------------------
(* Specification                                                           *)

Outputs0 ==
    /\ rects_fixed = <<>> /\ rects_inv = <<>>
    /\ rects1 = <<>> /\ rects2 = <<>>
    /\ flat_rects = <<>> /\ final_rects = <<>>
    /\ boxes = <<>> /\ crop_box = <<>>

InitDetect ==
    /\ fn = "detect_regions"
    /\ \/ image \in UniformImages \cup SceneImages /\ contours = <<>>
       \/ image = PageImage /\ IsPageContours(contours, BaselineSlots, MaxPool)
    /\ regions = <<>> /\ subsume_ratio = default_subsume_ratio /\ r = NoRegion

\* detect_text_regions never reaches findContours: no contours are drawn
InitDetectText ==
    /\ fn = "detect_text_regions"
    /\ image \in UniformImages \cup {PageImage}
    /\ contours = <<>>
    /\ regions = <<>> /\ subsume_ratio = default_subsume_ratio /\ r = NoRegion

InitPreprocess ==
    /\ fn = "preprocess_for_ocr"
    /\ \/ image \in UniformImages \cup SceneImages /\ contours = <<>>
       \/ image = PageImage /\ IsPageContours(contours, AllSlots, MaxCand)
    /\ regions = <<>> /\ subsume_ratio = default_subsume_ratio /\ r = NoRegion

InitSuppress ==
    /\ fn = "suppress_nested_boxes"
    /\ image = PageImage /\ contours = <<>>
    /\ regions \in SeqsUpTo({to_region(t) : t \in NestRects}, MaxPool)
    /\ subsume_ratio \in SubsumeRatios
    /\ r = NoRegion

InitCrop ==
    /\ fn = "pad_crop"
    /\ image \in CropImages /\ contours = <<>>
    /\ regions = <<>> /\ subsume_ratio = default_subsume_ratio
    /\ r \in CropRegions

\* no concurrent calls are under way
CallsIdle ==
    /\ call_pc = [c \in 1..NumCalls |-> "idle"]
    /\ call_adapter = [c \in 1..NumCalls |-> 1]
    /\ call_image = [c \in 1..NumCalls |-> PageImage]
    /\ call_boxes = [c \in 1..NumCalls |-> <<>>]
    /\ frames = <<>>

NoWorker ==
    [_urls |-> <<>>, _cancel |-> FALSE, _index |-> 0, _added |-> 0,
     _errors |-> 0, _currentReply |-> 0]

\* no download worker exists
DownloadIdle ==
    /\ dl_pc = "idle" /\ dl = NoWorker /\ dl_timers = 0
    /\ dl_replies = <<>> /\ dl_threads = <<>> /\ dl_signals = <<>>

NoOcrWorker == [_items |-> <<>>, _cancel |-> FALSE, ocr_engine |-> FALSE]
NoRun == [done |-> 0, total |-> 0, pos |-> 0]

\* no OCR worker exists
OcrIdle ==
    /\ ocr_pc = "idle" /\ ocr = NoOcrWorker /\ ocr_run = NoRun
    /\ ocr_signals = <<>>

\* nothing was saved
MissingFile == [exists |-> FALSE, array |-> <<>>]
JsonFile(entries) == [exists |-> TRUE, array |-> entries]

JishoIdle ==
    /\ jisho_json = MissingFile /\ jisho_ndjson = <<>>
    /\ jisho_before = MissingFile /\ jisho_saves = 0

\* no OCR was requested
AssocIdle ==
    /\ assoc_pc = "idle" /\ panel_rects = <<>> /\ crops = <<>>
    /\ results = <<>> /\ flat_results = <<>> /\ blocks_with_ids = <<>>
    /\ edits = 0

\* no FileLock exists
LockIdle ==
    /\ lock_dir = FALSE /\ lock_owner = 0 /\ fl = <<>>

Init ==
    /\ pc = "call"
    /\ Outputs0
    /\ (InitDetect \/ InitDetectText \/ InitPreprocess \/ InitSuppress \/ InitCrop)
    /\ CallsIdle /\ DownloadIdle /\ OcrIdle /\ JishoIdle /\ AssocIdle /\ LockIdle

Inputs == <<fn, image, contours, regions, subsume_ratio, r>>

\* the variables of the other specifications
nonDetectVars == <<callVars, dlVars, ocrVars, jishoVars, assocVars, lockVars>>

\* ComicTextDetectorAdapter.detect_regions(image)
DetectRegions ==
    /\ pc = "call" /\ fn = "detect_regions"
    /\ LET blurred == GaussianBlur(image)
           rf == collect_rects(th_fixed(blurred), contours)
           ri == collect_rects(th_fixed_inv(blurred), contours)
           flat == rf \o ri
           fin == detect_final_rects(flat)
       IN /\ rects_fixed' = rf
          /\ rects_inv' = ri
          /\ flat_rects' = flat
          /\ final_rects' = fin
          /\ boxes' = sort_top_left(to_regions(fin))
    /\ pc' = "done"
    /\ UNCHANGED nonDetectVars
    /\ UNCHANGED <<Inputs, rects1, rects2, crop_box>>

\* preprocess_for_ocr(img)
PreprocessForOcr ==
    /\ pc = "call" /\ fn = "preprocess_for_ocr"
    /\ LET r1 == contours_and_overlay(th_fixed(image), name_prefix_fixed, contours)
           r2 == contours_and_overlay(th_fixed_inv(image), name_prefix_inv, contours)
           flat == Concat(r1 \o r2)
       IN /\ rects1' = r1
          /\ rects2' = r2
          /\ flat_rects' = flat
          /\ final_rects' = preprocess_final_rects(flat)
    /\ pc' = "done"
    /\ UNCHANGED nonDetectVars
    /\ UNCHANGED <<Inputs, rects_fixed, rects_inv, boxes, crop_box>>

\* suppress_nested_boxes(regions, subsume_ratio)
SuppressNestedBoxes ==
    /\ pc = "call" /\ fn = "suppress_nested_boxes"
    /\ boxes' = suppress_nested_boxes(regions, subsume_ratio)
    /\ pc' = "done"
    /\ UNCHANGED nonDetectVars
    /\ UNCHANGED <<Inputs, rects_fixed, rects_inv, rects1, rects2, flat_rects,
                   final_rects, crop_box>>

\* pad_crop(img, r): the box handed to img.crop
PadCrop ==
    /\ pc = "call" /\ fn = "pad_crop"
    /\ crop_box' = pad_crop_box(image, r)
    /\ pc' = "done"
    /\ UNCHANGED nonDetectVars
    /\ UNCHANGED <<Inputs, rects_fixed, rects_inv, rects1, rects2, flat_rects,
                   final_rects, boxes>>

\* detect_text_regions(img): line 61 calls ComicTextDetectorAdapter(device=...,
\* models_dir=...), whose __init__(self) takes no keyword: TypeError
DetectTextRegions ==
    /\ pc = "call" /\ fn = "detect_text_regions"
    /\ pc' = "raised"
    /\ UNCHANGED nonDetectVars
    /\ UNCHANGED <<Inputs, rects_fixed, rects_inv, rects1, rects2, flat_rects,
                   final_rects, boxes, crop_box>>

Next ==
    \/ DetectRegions
    \/ PreprocessForOcr
    \/ SuppressNestedBoxes
    \/ PadCrop
    \/ DetectTextRegions

Spec == Init /\ [][Next]_vars

----------------------------------------------------------------------------
(* Concurrent calls of detect_regions                                      *)
(*                                                                         *)
(* NumCalls threads call detect_regions, each on its own image, on one of  *)
(* NumAdapters adapter instances.  A call runs in three steps between      *)
(* which the other calls may run: blur and threshold (lines 38-45),        *)
(* collect_rects on both masks (lines 60-62), filter / suppress / sort     *)
(* (lines 75-103).                                                         *)

\* no call of the detection entry points is under way
DetectIdle ==
    /\ fn = "none" /\ pc = "idle"
    /\ image = PageImage /\ contours = <<>>
    /\ regions = <<>> /\ subsume_ratio = default_subsume_ratio /\ r = NoRegion
    /\ Outputs0

CallImages ==
    { img \in UniformImages : img.W = 100 /\ img.H = 100 /\ img.g \in {0, 128} }
    \cup { img \in ScenarioB : img.W = 300 /\ img.shapes[1].g = 0 }
    \cup { img \in ScenarioC : img.shapes[1].g = 0 }

NoFrame == [th_fixed |-> <<>>, th_fixed_inv |-> <<>>, flat_rects |-> <<>>]

\* where the local variables of call c live: every invocation has its own
\* frame; __init__ (lines 31-32) creates no attribute on the instance
frame_of_instance(c) == NumCalls + call_adapter[c]
frame_of(c) == c

InitCalls ==
    /\ DetectIdle /\ DownloadIdle /\ OcrIdle /\ JishoIdle /\ AssocIdle /\ LockIdle
    /\ call_pc = [c \in 1..NumCalls |-> "call"]
    /\ call_adapter \in [1..NumCalls -> 1..NumAdapters]
    /\ call_image \in [1..NumCalls -> CallImages]
    /\ call_boxes = [c \in 1..NumCalls |-> <<>>]
    /\ frames = [f \in 1..(NumCalls + NumAdapters) |-> NoFrame]

\* lines 38-45
CallThreshold(c) ==
    /\ call_pc[c] = "call"
    /\ LET blurred == GaussianBlur(call_image[c])
       IN frames' = [frames EXCEPT ![frame_of(c)] =
                        [@ EXCEPT !.th_fixed = th_fixed(blurred),
                                  !.th_fixed_inv = th_fixed_inv(blurred)]]
    /\ call_pc' = [call_pc EXCEPT ![c] = "thresholded"]
    /\ UNCHANGED <<detectVars, dlVars, ocrVars, jishoVars, assocVars, lockVars, call_adapter, call_image, call_boxes>>

\* lines 60-62
CallCollect(c) ==
    /\ call_pc[c] = "thresholded"
    /\ LET f == frames[frame_of(c)]
           rf == collect_rects(f.th_fixed, <<>>)
           ri == collect_rects(f.th_fixed_inv, <<>>)
       IN frames' = [frames EXCEPT ![frame_of(c)].flat_rects = rf \o ri]
    /\ call_pc' = [call_pc EXCEPT ![c] = "collected"]
    /\ UNCHANGED <<detectVars, dlVars, ocrVars, jishoVars, assocVars, lockVars, call_adapter, call_image, call_boxes>>

\* lines 75-103
CallReturn(c) ==
    /\ call_pc[c] = "collected"
    /\ LET fin == detect_final_rects(frames[frame_of(c)].flat_rects)
       IN call_boxes' = [call_boxes EXCEPT ![c] = sort_top_left(to_regions(fin))]
    /\ call_pc' = [call_pc EXCEPT ![c] = "done"]
    /\ UNCHANGED <<detectVars, dlVars, ocrVars, jishoVars, assocVars, lockVars, call_adapter, call_image, frames>>

NextCalls ==
    \/ \E c \in 1..NumCalls : CallThreshold(c)
    \/ \E c \in 1..NumCalls : CallCollect(c)
    \/ \E c \in 1..NumCalls : CallReturn(c)

SpecCalls == InitCalls /\ [][NextCalls]_vars

----------------------------------------------------------------------------
(* AsyncImageDownloadWorker (ui/components/async_workers.py)               *)
(*                                                                         *)
(* The worker lives on the Qt event loop: every action below is one event  *)
(* (a zero timer, a signal of a QNetworkReply, a queued signal of a        *)
(* fallback thread, a call of cancel()) and runs the slot to its end.  A   *)
(* reply that fails emits errorOccurred and then finished; both are        *)
(* connected (lines 110-111).  A url is a data URI or a network url; what  *)
(* a request yields is chosen when its event is delivered.                 *)

UrlKinds == {"data", "net"}

Emit(sig) == Append(dl_signals, sig)

Progress(k) == [sig |-> "progress", k |-> k]
ItemReady == [sig |-> "itemReady"]
ItemError == [sig |-> "itemError"]
Finished(status, added, errors, cancelled) ==
    [sig |-> "finished", status |-> status, added |-> added,
     errors |-> errors, cancelled |-> cancelled]
Get(k) == [sig |-> "get", k |-> k]

\* the worker after an item was added (ok) or failed, progress was emitted
\* and _start_next was scheduled: the common tail of the slots
finalise(w, ok) ==
    [w EXCEPT !._added = IF ok THEN @ + 1 ELSE @,
              !._errors = IF ok THEN @ ELSE @ + 1,
              !._index = @ + 1]

finalise_signals(log, w, ok) ==
    log \o << (IF ok THEN ItemReady ELSE ItemError), Progress(w._index + 1) >>

InitDownload ==
    /\ DetectIdle /\ CallsIdle /\ OcrIdle /\ JishoIdle /\ AssocIdle /\ LockIdle
    /\ dl_pc = "constructed"
    /\ \E urls \in SeqsUpTo(UrlKinds, MaxUrls) : dl = [NoWorker EXCEPT !._urls = urls]
    /\ dl_timers = 0
    /\ dl_replies = <<>> /\ dl_threads = <<>> /\ dl_signals = <<>>

\* start(), lines 34-40
DlStart ==
    /\ dl_pc = "constructed"
    /\ dl_pc' = "started"
    /\ dl' = [dl EXCEPT !._cancel = FALSE, !._index = 0, !._added = 0,
                        !._errors = 0]
    /\ dl_timers' = dl_timers + 1
    /\ UNCHANGED <<detectVars, callVars, ocrVars, jishoVars, assocVars, lockVars, dl_replies, dl_threads, dl_signals>>

\* mutant: _start_next does not look at the flag
cancel_unseen(w) == FALSE

\* line 57: if self._cancel
cancel_requested(w) == w._cancel

\* _start_next(), lines 55-112
DlStartNext ==
    /\ dl_pc = "started" /\ dl_timers > 0
    /\ IF cancel_requested(dl)
       THEN /\ dl_signals' = Emit(Finished("Cancelled", dl._added, dl._errors, TRUE))
            /\ dl_timers' = dl_timers - 1
            /\ UNCHANGED <<dl, dl_replies>>
       ELSE IF dl._index >= Len(dl._urls)
       THEN /\ dl_signals' = Emit(Finished("Completed", dl._added, dl._errors, FALSE))
            /\ dl_timers' = dl_timers - 1
            /\ UNCHANGED <<dl, dl_replies>>
       ELSE IF dl._urls[dl._index + 1] = "data"
       THEN \E ok \in BOOLEAN :
               /\ dl_signals' = finalise_signals(dl_signals, dl, ok)
               /\ dl' = finalise(dl, ok)
               /\ dl_timers' = dl_timers
               /\ UNCHANGED dl_replies
       ELSE /\ dl_replies' = Append(dl_replies, [idx |-> dl._index, state |-> "inflight",
                                                 ssl |-> FALSE])
            /\ dl' = [dl EXCEPT !._currentReply = Len(dl_replies) + 1]
            /\ dl_signals' = Emit(Get(dl._index + 1))
            /\ dl_timers' = dl_timers - 1
    /\ UNCHANGED <<detectVars, callVars, ocrVars, jishoVars, assocVars, lockVars, dl_pc, dl_threads>>

\* _on_reply_error(reply, err), lines 114-158, as a step from worker w, log
\* and thread list to the new ones; started is whether the fallback thread
\* can be created.  The result is <<worker, log, threads, timers added>>
on_reply_error(w, log, threads, ssl, started) ==
    IF ssl /\ started
    THEN << [w EXCEPT !._currentReply = 0], log,
            Append(threads, [state |-> "running"]), 0 >>
    ELSE << [finalise(w, FALSE) EXCEPT !._currentReply = 0],
            finalise_signals(log, w, FALSE), threads, 1 >>

\* a reply finishes without error: _on_reply_finished(reply), lines 284-328
DlReplyFinished(rid) ==
    /\ dl_replies[rid].state = "inflight"
    /\ \E ok \in BOOLEAN :
          /\ dl_signals' = finalise_signals(dl_signals, dl, ok)
          /\ dl' = [finalise(dl, ok) EXCEPT !._currentReply = 0]
    /\ dl_timers' = dl_timers + 1
    /\ dl_replies' = [dl_replies EXCEPT ![rid].state = "done"]
    /\ UNCHANGED <<detectVars, callVars, ocrVars, jishoVars, assocVars, lockVars, dl_pc, dl_threads>>

\* a reply fails: errorOccurred is delivered to _on_reply_error
DlReplyErrorOccurred(rid) ==
    /\ dl_replies[rid].state = "inflight"
    /\ \E ssl \in BOOLEAN, started \in BOOLEAN :
          LET res == on_reply_error(dl, dl_signals, dl_threads, ssl, started)
          IN /\ dl' = res[1]
             /\ dl_signals' = res[2]
             /\ dl_threads' = res[3]
             /\ dl_timers' = dl_timers + res[4]
             /\ dl_replies' = [dl_replies EXCEPT ![rid].state = "errored",
                                                 ![rid].ssl = ssl]
    /\ UNCHANGED <<detectVars, callVars, ocrVars, jishoVars, assocVars, lockVars, dl_pc>>

\* the finished signal of a failed reply: _on_reply_finished sees
\* reply.error() != NoError and calls _on_reply_error (lines 286-287)
DlReplyFinishedAfterError(rid) ==
    /\ dl_replies[rid].state = "errored"
    /\ \E started \in BOOLEAN :
          LET res == on_reply_error(dl, dl_signals, dl_threads,
                                    dl_replies[rid].ssl, started)
          IN /\ dl' = res[1]
             /\ dl_signals' = res[2]
             /\ dl_threads' = res[3]
             /\ dl_timers' = dl_timers + res[4]
    /\ dl_replies' = [dl_replies EXCEPT ![rid].state = "done"]
    /\ UNCHANGED <<detectVars, callVars, ocrVars, jishoVars, assocVars, lockVars, dl_pc>>

\* the ready signal of a fallback thread: _on_fallback_ready, lines 231-269
DlFallbackReady(tid) ==
    /\ dl_threads[tid].state = "running"
    /\ \E ok \in BOOLEAN :
          /\ dl_signals' = finalise_signals(dl_signals, dl, ok)
          /\ dl' = finalise(dl, ok)
    /\ dl_timers' = dl_timers + 1
    /\ dl_threads' = [dl_threads EXCEPT ![tid].state = "done"]
    /\ UNCHANGED <<detectVars, callVars, ocrVars, jishoVars, assocVars, lockVars, dl_pc, dl_replies>>

\* the failed signal of a fallback thread: _on_fallback_failed, lines 271-282
DlFallbackFailed(tid) ==
    /\ dl_threads[tid].state = "running"
    /\ dl_signals' = finalise_signals(dl_signals, dl, FALSE)
    /\ dl' = finalise(dl, FALSE)
    /\ dl_timers' = dl_timers + 1
    /\ dl_threads' = [dl_threads EXCEPT ![tid].state = "done"]
    /\ UNCHANGED <<detectVars, callVars, ocrVars, jishoVars, assocVars, lockVars, dl_pc, dl_replies>>

\* cancel(), lines 42-53.  abort() of a reply in flight emits errorOccurred
\* (OperationCanceledError, no SSL wording) and finished before it returns;
\* both slots run inside cancel()
DlCancel ==
    /\ dl_pc = "started" /\ ~dl._cancel
    /\ LET w0 == [dl EXCEPT !._cancel = TRUE]
           rid == dl._currentReply
       IN IF rid # 0 /\ dl_replies[rid].state = "inflight"
          THEN LET e1 == on_reply_error(w0, dl_signals, dl_threads, FALSE, TRUE)
                   e2 == on_reply_error(e1[1], e1[2], e1[3], FALSE, TRUE)
               IN /\ dl' = [e2[1] EXCEPT !._currentReply = 0]
                  /\ dl_signals' = e2[2]
                  /\ dl_timers' = dl_timers + e1[4] + e2[4]
                  /\ dl_replies' = [dl_replies EXCEPT ![rid].state = "done"]
          ELSE /\ dl' = [w0 EXCEPT !._currentReply = 0]
               /\ UNCHANGED <<dl_signals, dl_timers, dl_replies>>
    /\ UNCHANGED <<detectVars, callVars, ocrVars, jishoVars, assocVars, lockVars, dl_pc, dl_threads>>

NextDownload ==
    \/ DlStart
    \/ DlStartNext
    \/ \E rid \in DOMAIN dl_replies : DlReplyFinished(rid)
    \/ \E rid \in DOMAIN dl_replies : DlReplyErrorOccurred(rid)
    \/ \E rid \in DOMAIN dl_replies : DlReplyFinishedAfterError(rid)
    \/ \E tid \in DOMAIN dl_threads : DlFallbackReady(tid)
    \/ \E tid \in DOMAIN dl_threads : DlFallbackFailed(tid)
    \/ DlCancel

SpecDownload == InitDownload /\ [][NextDownload]_vars

\* The event loop delivers every pending zero timer; a reply in flight and a
\* running fallback thread report back; the finished signal follows
\* errorOccurred.  Calls of start() and cancel() are up to the user.
FairDownload ==
    /\ WF_vars(DlStartNext)
    /\ WF_vars(\E rid \in DOMAIN dl_replies :
                  DlReplyFinished(rid) \/ DlReplyErrorOccurred(rid))
    /\ WF_vars(\E rid \in DOMAIN dl_replies : DlReplyFinishedAfterError(rid))
    /\ WF_vars(\E tid \in DOMAIN dl_threads :
                  DlFallbackReady(tid) \/ DlFallbackFailed(tid))

SpecDownloadFair == SpecDownload /\ FairDownload

----------------------------------------------------------------------------
(* OcrWorker (ui/components/async_workers.py)                              *)
(*                                                                         *)
(* run() executes in the worker's thread; cancel() is called from the GUI  *)
(* thread and may fall between any two steps of run().  An item either     *)
(* yields blocks ("ok": exceptions of single crops are caught, lines       *)
(* 566-573) or raises in the outer try ("raises").  ocr_engine tells       *)
(* whether an engine was handed to the constructor.                        *)

ItemKinds == {"ok", "raises"}

OcrItemFinished(i) == [sig |-> "itemFinished", item |-> i]
OcrItemError(i) == [sig |-> "itemError", item |-> i]
OcrProgress(done, total) == [sig |-> "progress", done |-> done, total |-> total]
OcrFinished(done) == [sig |-> "finished", done |-> done]
OcrCancelled == [sig |-> "cancel"]
\* line 552: print("[OCR] OCRing {panel_id} ..."), the first statement of the
\* loop body behind the cancel test
OcrPrinted(i) == [sig |-> "print", item |-> i]

InitOcr ==
    /\ DetectIdle /\ CallsIdle /\ DownloadIdle /\ JishoIdle /\ AssocIdle /\ LockIdle
    /\ ocr_pc = "constructed"
    /\ \E items \in SeqsUpTo(ItemKinds, MaxItems), engine \in BOOLEAN :
          ocr = [_items |-> items, _cancel |-> FALSE, ocr_engine |-> engine]
    /\ ocr_run = NoRun
    /\ ocr_signals = <<>>

\* mutant: the flag is not looked at
cancel_ignored(w) == FALSE

\* line 547: if self._cancel
cancel_observed(w) == w._cancel

\* lines 535-542: done = 0, total = len(self._items); without an engine the
\* import of ocr_adapter and create_ocr() run, and either may raise
OcrRunEnter ==
    /\ ocr_pc = "constructed"
    /\ \E created \in BOOLEAN :
          IF ocr.ocr_engine \/ created
          THEN /\ ocr_pc' = "loop"
               /\ ocr_run' = [done |-> 0, total |-> Len(ocr._items), pos |-> 1]
          ELSE /\ ocr_pc' = "raised"
               /\ UNCHANGED ocr_run
    /\ UNCHANGED <<detectVars, callVars, dlVars, jishoVars, assocVars, lockVars, ocr, ocr_signals>>

\* lines 543-552 and 589: the loop head, the cancel test, the print that
\* opens the body, and the finished signal behind the loop
OcrLoopHead ==
    /\ ocr_pc = "loop"
    /\ IF ocr_run.pos > Len(ocr._items) \/ cancel_observed(ocr)
       THEN /\ ocr_signals' = Append(ocr_signals, OcrFinished(ocr_run.done))
            /\ ocr_pc' = "returned"
       ELSE /\ ocr_pc' = "body"
            /\ ocr_signals' = Append(ocr_signals, OcrPrinted(ocr_run.pos))
    /\ UNCHANGED <<detectVars, callVars, dlVars, jishoVars, assocVars, lockVars, ocr, ocr_run>>

\* lines 549-586: the item is OCRed and itemFinished or itemError is emitted
OcrItem ==
    /\ ocr_pc = "body"
    /\ ocr_signals' = Append(ocr_signals,
                             IF ocr._items[ocr_run.pos] = "ok"
                             THEN OcrItemFinished(ocr_run.pos)
                             ELSE OcrItemError(ocr_run.pos))
    /\ ocr_pc' = "progress"
    /\ UNCHANGED <<detectVars, callVars, dlVars, jishoVars, assocVars, lockVars, ocr, ocr_run>>

\* lines 587-588: done += 1; progress.emit(done, total)
OcrItemDone ==
    /\ ocr_pc = "progress"
    /\ ocr_run' = [ocr_run EXCEPT !.done = @ + 1, !.pos = @ + 1]
    /\ ocr_signals' = Append(ocr_signals,
                             OcrProgress(ocr_run.done + 1, ocr_run.total))
    /\ ocr_pc' = "loop"
    /\ UNCHANGED <<detectVars, callVars, dlVars, jishoVars, assocVars, lockVars, ocr>>

\* cancel(), lines 531-532
OcrCancel ==
    /\ ocr_pc # "idle" /\ ~ocr._cancel
    /\ ocr' = [ocr EXCEPT !._cancel = TRUE]
    /\ ocr_signals' = Append(ocr_signals, OcrCancelled)
    /\ UNCHANGED <<detectVars, callVars, dlVars, jishoVars, assocVars, lockVars, ocr_pc, ocr_run>>

NextOcr ==
    \/ OcrRunEnter
    \/ OcrLoopHead
    \/ OcrItem
    \/ OcrItemDone
    \/ OcrCancel

SpecOcr == InitOcr /\ [][NextOcr]_vars

----------------------------------------------------------------------------
(* JishoStorage.save_jisho_response (services/dictionary/jisho.py)         *)
(*                                                                         *)
(* An API item is a record of its slug and word fields ("" where the field *)
(* is absent or empty); dict is FALSE for an item that is no dict, on      *)
(* which _compact_jisho_item raises.  A stored entry is a record of its    *)
(* slug; the other fields of an entry play no part in the de-duplication.  *)

JishoItems ==
    { [dict |-> TRUE, slug |-> "a", word |-> ""],
      [dict |-> TRUE, slug |-> "", word |-> "b"],
      [dict |-> TRUE, slug |-> "", word |-> ""],
      [dict |-> FALSE, slug |-> "", word |-> ""] }

\* responses: one that is no dict (data is then not looked at), or a dict
\* with a data list
JishoResponses ==
    { [dict |-> FALSE, data |-> <<>>] }
    \cup { [dict |-> TRUE, data |-> d] : d \in SeqsUpTo(JishoItems, MaxData) }

\* line 65: slug = item.get('slug') or item.get('word') or ''
_compact_jisho_item(item) ==
    [slug |-> IF item.slug # "" THEN item.slug
              ELSE IF item.word # "" THEN item.word ELSE ""]

\* line 130: {e.get('slug') for e in existing if ... and e.get('slug')}
slug_set_of(existing) ==
    { existing[i].slug : i \in {j \in DOMAIN existing : existing[j].slug # ""} }

\* lines 132-149: the loop over data; the result is <<existing, slug_set,
\* lines appended to the NDJSON file>>
save_loop(data, existing0) ==
    LET F[n \in 0..Len(data)] ==
            IF n = 0 THEN << existing0, slug_set_of(existing0), <<>> >>
            ELSE LET prev == F[n-1]
                     item == data[n]
                 IN IF ~item.dict THEN prev
                    ELSE LET compact == _compact_jisho_item(item)
                         IN IF compact.slug \in prev[2] THEN prev
                            ELSE << Append(prev[1], compact),
                                    prev[2] \cup {compact.slug},
                                    Append(prev[3], compact) >>
    IN F[Len(data)]

InitJisho ==
    /\ DetectIdle /\ CallsIdle /\ DownloadIdle /\ OcrIdle /\ AssocIdle /\ LockIdle
    /\ jisho_json \in { MissingFile, JsonFile(<<>>),
                        JsonFile(<< [slug |-> "a"] >>),
                        JsonFile(<< [slug |-> ""] >>) }
    /\ jisho_ndjson = <<>>
    /\ jisho_before = jisho_json
    /\ jisho_saves = 0

\* save_jisho_response(response), lines 99-169, under the FileLock
SaveJishoResponse ==
    /\ jisho_saves < MaxSaves
    /\ jisho_saves' = jisho_saves + 1
    /\ jisho_before' = jisho_json
    /\ \E response \in JishoResponses :
          IF ~response.dict \/ response.data = <<>>
          THEN UNCHANGED <<jisho_json, jisho_ndjson>>
          ELSE LET existing == IF jisho_json.exists THEN jisho_json.array ELSE <<>>
                   res == save_loop(response.data, existing)
               IN /\ jisho_ndjson' = jisho_ndjson \o res[3]
                  /\ jisho_json' = IF Len(res[3]) > 0 THEN JsonFile(res[1])
                                   ELSE jisho_json
    /\ UNCHANGED <<detectVars, callVars, dlVars, ocrVars, assocVars, lockVars>>

NextJisho == SaveJishoResponse

SpecJisho == InitJisho /\ [][NextJisho]_vars

----------------------------------------------------------------------------
(* MainWindow._onRequestOcr, the OcrWorker it starts for the crops of one   *)
(* panel, rectangle edits of the preview in between, and on_item_finished. *)
(* A rectangle carries a tag (which part of the page it frames) and its id *)
(* (<<>>: no 'id' key, <<idx>>: f"{panel_id}_{idx}"); a block carries the   *)
(* tag of the crop it was recognised from, which stands for its text.      *)

MaxRects == 2       \* most rectangles of the panel when OCR is requested
MaxEdits == 1       \* most rectangle edits while the request is under way

Rect(tag, id) == [tag |-> tag, id |-> id]
Block(c, n) == [crop |-> c, n |-> n]

\* what ocr.extract_blocks does with one crop
CropOutcomes == {"raises", "none", "one", "two"}

\* crop_regions(pil_img, rects, pad=2): one crop per rectangle, in order
crop_regions(rects) == [i \in DOMAIN rects |-> rects[i].tag]

\* _onRequestOcr, lines 1028-1029: rect['id'] = f"{panel_id}_{idx}"
assign_ids(rects) == [i \in DOMAIN rects |-> Rect(rects[i].tag, <<i - 1>>)]

\* OcrWorker.run, lines 573-580: results.append(blocks), or results.append([])
\* when extract_blocks raises
blocks_of(c, outcome) ==
    CASE outcome = "one" -> << Block(c, 1) >>
      [] outcome = "two" -> << Block(c, 1), Block(c, 2) >>
      [] OTHER -> <<>>

\* line 582: flat_results = [block for blocks in results for block in blocks]
flatten(rs) ==
    LET F[i \in 0..Len(rs)] == IF i = 0 THEN <<>> ELSE F[i-1] \o rs[i]
    IN F[Len(rs)]

\* on_item_finished, lines 1049-1056: entry idx of the results goes under the
\* id of rectangle idx of the panel's current list; behind the end of that
\* list the id is f"{panel_id}_{idx}" and `text` is what the last iteration
\* inside the list left in it
item_blocks(rects, res) ==
    [k \in DOMAIN res |->
        [id |-> IF k <= Len(rects) /\ rects[k].id # <<>>
                THEN rects[k].id ELSE <<k - 1>>,
         text |-> res[IF k <= Len(rects) THEN k ELSE Len(rects)]]]

\* `text` is read before any assignment: UnboundLocalError
item_raises(rects, res) == Len(res) > 0 /\ Len(rects) = 0

\* RectPreview.removeSelected, lines 96-100: the list without entry i
remove_at(s, i) ==
    [j \in 1..(Len(s) - 1) |-> IF j < i THEN s[j] ELSE s[j + 1]]

InitAssoc ==
    /\ DetectIdle /\ CallsIdle /\ DownloadIdle /\ OcrIdle /\ JishoIdle /\ LockIdle
    /\ assoc_pc = "idle"
    /\ \E n \in 0..MaxRects : panel_rects = [i \in 1..n |-> Rect(i, <<>>)]
    /\ crops = <<>> /\ results = <<>> /\ flat_results = <<>>
    /\ blocks_with_ids = <<>> /\ edits = 0

\* _onRequestOcr, lines 992-1061
AssocRequestOcr ==
    /\ assoc_pc = "idle"
    /\ IF panel_rects = <<>>
       THEN /\ assoc_pc' = "refused"
            /\ UNCHANGED <<panel_rects, crops>>
       ELSE /\ crops' = crop_regions(panel_rects)
            /\ panel_rects' = assign_ids(panel_rects)
            /\ assoc_pc' = "running"
    /\ UNCHANGED <<results, flat_results, blocks_with_ids, edits>>
    /\ UNCHANGED <<detectVars, callVars, dlVars, ocrVars, jishoVars, lockVars>>

\* OcrWorker.run, lines 563-580: one turn of the loop over the crops
AssocRecognize ==
    /\ assoc_pc = "running" /\ Len(results) < Len(crops)
    /\ \E outcome \in CropOutcomes :
          results' = Append(results, blocks_of(crops[Len(results) + 1], outcome))
    /\ UNCHANGED <<assoc_pc, panel_rects, crops, flat_results, blocks_with_ids, edits>>
    /\ UNCHANGED <<detectVars, callVars, dlVars, ocrVars, jishoVars, lockVars>>

\* OcrWorker.run, lines 581-583: itemFinished.emit(panel_id, flat_results)
AssocEmit ==
    /\ assoc_pc = "running" /\ Len(results) = Len(crops)
    /\ flat_results' = flatten(results)
    /\ assoc_pc' = "emitted"
    /\ UNCHANGED <<panel_rects, crops, results, blocks_with_ids, edits>>
    /\ UNCHANGED <<detectVars, callVars, dlVars, ocrVars, jishoVars, lockVars>>

\* RectPreview.removeSelected / clearRects / mouseReleaseEvent emit
\* rectsChanged with the rectangles left, or with a new one (no id) at the
\* end; _onRectsChanged, lines 691-696, stores the list
AssocRectsChanged ==
    /\ assoc_pc \in {"running", "emitted"} /\ edits < MaxEdits
    /\ edits' = edits + 1
    /\ \/ \E i \in DOMAIN panel_rects :
             panel_rects' = remove_at(panel_rects, i)
       \/ panel_rects' = <<>>
       \/ panel_rects' = Append(panel_rects, Rect(0, <<>>))
    /\ UNCHANGED <<assoc_pc, crops, results, flat_results, blocks_with_ids>>
    /\ UNCHANGED <<detectVars, callVars, dlVars, ocrVars, jishoVars, lockVars>>

\* on_item_finished(panel_id, results), lines 1047-1060
AssocItemFinished ==
    /\ assoc_pc = "emitted"
    /\ IF item_raises(panel_rects, flat_results)
       THEN assoc_pc' = "raised" /\ UNCHANGED blocks_with_ids
       ELSE /\ blocks_with_ids' = item_blocks(panel_rects, flat_results)
            /\ assoc_pc' = "stored"
    /\ UNCHANGED <<panel_rects, crops, results, flat_results, edits>>
    /\ UNCHANGED <<detectVars, callVars, dlVars, ocrVars, jishoVars, lockVars>>

NextAssoc ==
    \/ AssocRequestOcr
    \/ AssocRecognize
    \/ AssocEmit
    \/ AssocRectsChanged
    \/ AssocItemFinished

SpecAssoc == InitAssoc /\ [][NextAssoc]_vars

----------------------------------------------------------------------------
(* FileLock: callers (threads or processes) that run `with FileLock(path)` *)
(* on the same path, as save_jisho_response does.  Every with-statement    *)
(* makes a new FileLock; the lock is the directory.                        *)

NumCallers == 2     \* callers that use the same lock path
MaxWith == 2        \* with-statements a caller runs

Callers == 1..NumCallers
Stranger == NumCallers + 1  \* a process that died holding the directory

NoLock == [pc |-> "out", _locked |-> FALSE, exc |-> FALSE, calls |-> 0]

\* mutant: the directory is made as by makedirs(exist_ok=True)
mkdir_exist_ok(exists) == TRUE

\* os.mkdir(path) succeeds iff the path does not exist; otherwise
\* FileExistsError
mkdir(exists) == ~exists

InitLock ==
    /\ DetectIdle /\ CallsIdle /\ DownloadIdle /\ OcrIdle /\ JishoIdle /\ AssocIdle
    /\ \/ lock_dir = FALSE /\ lock_owner = 0
       \/ lock_dir = TRUE /\ lock_owner = Stranger
    /\ fl = [c \in Callers |-> NoLock]

\* FileLock(lockfile), lines 11-15, and the entry of __enter__, line 18
LockEnter(c) ==
    /\ fl[c].pc \in {"out", "timeout"} /\ fl[c].calls < MaxWith
    /\ fl' = [fl EXCEPT ![c] = [pc |-> "mkdir", _locked |-> FALSE, exc |-> FALSE,
                                calls |-> fl[c].calls + 1]]
    /\ UNCHANGED <<lock_dir, lock_owner>>
    /\ UNCHANGED <<detectVars, callVars, dlVars, ocrVars, jishoVars, assocVars>>

\* __enter__, lines 20-24: os.mkdir, then _locked = True and return
LockMkdir(c) ==
    /\ fl[c].pc = "mkdir"
    /\ IF mkdir(lock_dir)
       THEN /\ lock_dir' = TRUE /\ lock_owner' = c
            /\ fl' = [fl EXCEPT ![c].pc = "in", ![c]._locked = TRUE]
       ELSE /\ fl' = [fl EXCEPT ![c].pc = "caught"]
            /\ UNCHANGED <<lock_dir, lock_owner>>
    /\ UNCHANGED <<detectVars, callVars, dlVars, ocrVars, jishoVars, assocVars>>

\* __enter__, lines 24-27: after FileExistsError either the timeout has
\* passed (TimeoutError leaves __enter__, the block and __exit__ do not run)
\* or the caller sleeps and tries again
LockRetry(c) ==
    /\ fl[c].pc = "caught"
    /\ \E timed_out \in BOOLEAN :
          fl' = [fl EXCEPT ![c].pc = IF timed_out THEN "timeout" ELSE "mkdir"]
    /\ UNCHANGED <<lock_dir, lock_owner>>
    /\ UNCHANGED <<detectVars, callVars, dlVars, ocrVars, jishoVars, assocVars>>

\* the with-block ends, normally or by an exception; __exit__ is entered
LockLeave(c) ==
    /\ fl[c].pc = "in"
    /\ \E raised \in BOOLEAN : fl' = [fl EXCEPT ![c].pc = "exit", ![c].exc = raised]
    /\ UNCHANGED <<lock_dir, lock_owner>>
    /\ UNCHANGED <<detectVars, callVars, dlVars, ocrVars, jishoVars, assocVars>>

\* __exit__, lines 29-34: if _locked, os.rmdir (an error is swallowed)
LockRmdir(c) ==
    /\ fl[c].pc = "exit"
    /\ IF fl[c]._locked
       THEN lock_dir' = FALSE /\ lock_owner' = 0
       ELSE UNCHANGED <<lock_dir, lock_owner>>
    /\ fl' = [fl EXCEPT ![c].pc = "finally"]
    /\ UNCHANGED <<detectVars, callVars, dlVars, ocrVars, jishoVars, assocVars>>

\* __exit__, lines 35-36: finally _locked = False; the with-statement is over
LockUnlocked(c) ==
    /\ fl[c].pc = "finally"
    /\ fl' = [fl EXCEPT ![c].pc = "out", ![c]._locked = FALSE]
    /\ UNCHANGED <<lock_dir, lock_owner>>
    /\ UNCHANGED <<detectVars, callVars, dlVars, ocrVars, jishoVars, assocVars>>

NextLock ==
    \E c \in Callers :
        \/ LockEnter(c)
        \/ LockMkdir(c)
        \/ LockRetry(c)
        \/ LockLeave(c)
        \/ LockRmdir(c)
        \/ LockUnlocked(c)

SpecLock == InitLock /\ [][NextLock]_vars

----------------------------------------------------------------------------
(* Vocabulary of the properties                                            *)

Done(f) == pc = "done" /\ fn = f

RArea(q) == q.width * q.height

\* area of the overlap of two regions
Overlap(a, b) ==
    LET ox == Min2(a.left + a.width, b.left + b.width) - Max2(a.left, b.left)
        oy == Min2(a.top + a.height, b.top + b.height) - Max2(a.top, b.top)
    IN IF ox > 0 /\ oy > 0 THEN ox * oy ELSE 0

\* big has a larger area than small and covers at least ratio of it
Dominates(big, small, ratio) ==
    /\ RArea(big) > RArea(small)
    /\ Overlap(small, big) * ratio[2] >= ratio[1] * RArea(small)

\* positions of pool that no other position dominates
Undominated(pool, ratio) ==
    { i \in DOMAIN pool :
        ~\E j \in DOMAIN pool : j # i /\ Dominates(pool[j], pool[i], ratio) }

\* the entries of s at the positions K, in the order of s
SubSeqAt(s, K) ==
    LET F[i \in 0..Len(s)] ==
            IF i = 0 THEN <<>>
            ELSE IF i \in K THEN Append(F[i-1], s[i]) ELSE F[i-1]
    IN F[Len(s)]

Count(s, v) == Cardinality({i \in DOMAIN s : s[i] = v})

InBounds(q) ==
    /\ 30 <= q.width /\ q.width <= 600
    /\ 30 <= q.height /\ q.height <= 600
    /\ q.width * q.height <= 250000

AllPositive(pool) == \A i \in DOMAIN pool : pool[i].width > 0 /\ pool[i].height > 0

\* the pool a suppression loop walks and the list it leaves, as regions
SuppressorPool ==
    IF fn = "suppress_nested_boxes" THEN regions ELSE to_regions(flat_rects)
SuppressorRatio ==
    IF fn = "suppress_nested_boxes" THEN subsume_ratio ELSE default_subsume_ratio
SuppressorOutput ==
    IF fn = "suppress_nested_boxes" THEN boxes ELSE to_regions(final_rects)

----------------------------------------------------------------------------
(* C1: after suppression (suppress_nested_boxes at the default ratio, and  *)
(* the inline loops of detect_regions and preprocess_for_ocr) no returned  *)
(* region is covered to 80% or more by a returned region of larger area;   *)
(* the single pass over the pool establishes this for every pool.          *)
C1_NoDominatedPairReturned ==
    (/\ pc = "done"
     /\ fn \in {"suppress_nested_boxes", "detect_regions", "preprocess_for_ocr"}
     /\ SuppressorRatio = <<4, 5>>)
    => \A i, j \in DOMAIN SuppressorOutput :
          i # j => ~Dominates(SuppressorOutput[j], SuppressorOutput[i], <<4, 5>>)

\* a pool of three of which one is dropped and two overlapping ones are kept
C1_Witness ==
    /\ Done("suppress_nested_boxes")
    /\ subsume_ratio = <<4, 5>>
    /\ AllPositive(regions)
    /\ Len(regions) = 3
    /\ Len(boxes) = 2
    /\ Overlap(boxes[1], boxes[2]) > 0
    /\ RArea(boxes[1]) # RArea(boxes[2])

(* C2: on a pool of regions of positive width and height,                  *)
(* suppress_nested_boxes (and the loop of preprocess_for_ocr, at 0.8)      *)
(* drops a region exactly when another pool entry has a larger area and    *)
(* overlaps it by at least subsume_ratio of its area, the boundary         *)
(* included; a region lying wholly inside a larger pool region is not      *)
(* returned.                                                               *)
C2_DroppedIffDominated ==
    (/\ pc = "done"
     /\ fn \in {"suppress_nested_boxes", "preprocess_for_ocr"}
     /\ AllPositive(SuppressorPool))
    => /\ SuppressorOutput =
            SubSeqAt(SuppressorPool, Undominated(SuppressorPool, SuppressorRatio))
       /\ \A i, j \in DOMAIN SuppressorPool :
            (/\ RArea(SuppressorPool[j]) > RArea(SuppressorPool[i])
             /\ Overlap(SuppressorPool[i], SuppressorPool[j]) = RArea(SuppressorPool[i]))
            => SuppressorPool[i] \notin Range(SuppressorOutput)

\* an overlap of exactly 80% at ratio 0.8: the smaller region is dropped
C2_Witness ==
    /\ Done("suppress_nested_boxes")
    /\ subsume_ratio = <<4, 5>>
    /\ AllPositive(regions)
    /\ boxes # <<>>
    /\ \E i, j \in DOMAIN regions :
          /\ RArea(regions[j]) > RArea(regions[i])
          /\ Overlap(regions[i], regions[j]) * 5 = 4 * RArea(regions[i])
          /\ regions[i] \notin Range(boxes)

(* C3: detect_regions returns what size-filtering every candidate first    *)
(* and suppressing against the surviving candidates only would return: a   *)
(* rectangle the size filter rejects never removes a candidate.            *)
C3_SuppressorSeesFilteredPoolOnly ==
    Done("detect_regions")
    => LET pool == to_regions(flat_rects)
           filtered == SubSeqAt(pool, {i \in DOMAIN pool : InBounds(pool[i])})
       IN to_regions(final_rects) =
              SubSeqAt(filtered, Undominated(filtered, <<4, 5>>))

(* C4: pool regions of equal area never remove each other: when neither    *)
(* is dominated by a strictly larger pool region both are kept, and an     *)
(* undominated rectangle is returned as often as the pool holds it.        *)
C4_EqualAreasBothKept ==
    (pc = "done" /\ fn \in {"suppress_nested_boxes", "preprocess_for_ocr"})
    => \A i, j \in DOMAIN SuppressorPool :
          (/\ i # j
           /\ RArea(SuppressorPool[i]) = RArea(SuppressorPool[j])
           /\ SuppressorPool[i].width > 0 /\ SuppressorPool[i].height > 0
           /\ SuppressorPool[j].width > 0 /\ SuppressorPool[j].height > 0
           /\ {i, j} \subseteq Undominated(SuppressorPool, SuppressorRatio))
          => /\ SuppressorPool[i] \in Range(SuppressorOutput)
             /\ SuppressorPool[j] \in Range(SuppressorOutput)
             /\ Count(SuppressorOutput, SuppressorPool[i])
                    = Count(SuppressorPool, SuppressorPool[i])

\* two identical rectangles and an overlapping one of another shape, all kept
C4_Witness ==
    /\ Done("suppress_nested_boxes")
    /\ Len(boxes) = 3
    /\ boxes[1] = boxes[2]
    /\ boxes[3] # boxes[1]
    /\ RArea(boxes[3]) = RArea(boxes[1])
    /\ Overlap(boxes[1], boxes[3]) * 5 >= 4 * RArea(boxes[1])

----------------------------------------------------------------------------
\* the rectangles findContours yields for a mask of the image under setting
\* number idx of contours_and_overlay, as regions
RawOf(mask, idx) ==
    to_regions(find_rects(IF mask = "direct" THEN th_fixed(image)
                          ELSE th_fixed_inv(image), contours, idx - 1))

PassAll(raw) == {i \in DOMAIN raw : InBounds(raw[i])}
PassNarrow(raw) == {i \in DOMAIN raw : InBounds(raw[i]) /\ raw[i].width <= 150}

----------------------------------------------------------------------------
KeyOf(q) == <<q.top, q.left>>

\* the entries of s whose (top, left) is k, in the order of s
WithKey(s, k) == SubSeqAt(s, {i \in DOMAIN s : KeyOf(s[i]) = k})

----------------------------------------------------------------------------
(* C8: for every image size and every region, also one partly or wholly    *)
(* outside the image or of zero size, the crop box pad_crop computes is    *)
(* well formed: x1 <= x2 and y1 <= y2.                                     *)
C8_CropBoxWellFormed ==
    Done("pad_crop") => crop_box[1] <= crop_box[3] /\ crop_box[2] <= crop_box[4]

(* C9: for a region with left, top >= 0 and positive size the crop box is  *)
(* the rectangle grown by pad = floor(0.06 * min(width, height)) on all    *)
(* four sides and clamped to the image; so 0 <= x1, 0 <= y1, x2 <= W,      *)
(* y2 <= H, and the box covers the part of the region inside the image.    *)
C9_CropBoxPaddedAndClamped ==
    (/\ Done("pad_crop")
     /\ r.left >= 0 /\ r.top >= 0 /\ r.width > 0 /\ r.height > 0)
    => LET m == IF r.width < r.height THEN r.width ELSE r.height
           pad == (6 * m) \div 100
           x1 == crop_box[1]
           y1 == crop_box[2]
           x2 == crop_box[3]
           y2 == crop_box[4]
       IN /\ x1 = (IF r.left - pad > 0 THEN r.left - pad ELSE 0)
          /\ y1 = (IF r.top - pad > 0 THEN r.top - pad ELSE 0)
          /\ x2 = (IF r.left + r.width + pad < image.W
                   THEN r.left + r.width + pad ELSE image.W)
          /\ y2 = (IF r.top + r.height + pad < image.H
                   THEN r.top + r.height + pad ELSE image.H)
          /\ 0 <= x1 /\ 0 <= y1 /\ x2 <= image.W /\ y2 <= image.H
          /\ x1 <= r.left /\ y1 <= r.top
          /\ x2 >= Min2(image.W, r.left + r.width)
          /\ y2 >= Min2(image.H, r.top + r.height)

\* a padded box that is clamped on the left and right and not above
C9_Witness ==
    /\ Done("pad_crop")
    /\ r.left = 0 /\ r.top > 0 /\ r.width > image.W /\ r.height > 0
    /\ pad_of(r) >= 1
    /\ crop_box[1] = 0
    /\ crop_box[3] = image.W
    /\ crop_box[2] = r.top - pad_of(r)
    /\ crop_box[2] > 0

----------------------------------------------------------------------------
(* C10: for an image whose pixels all have the same gray value g, of any   *)
(* size, detect_regions returns no region.                                 *)
C10_UniformImageNoRegions ==
    (Done("detect_regions") /\ image.uniform) => boxes = <<>>

----------------------------------------------------------------------------
(* Scenes                                                                  *)

AbsDiff(a, b) == IF a >= b THEN a - b ELSE b - a

\* q is the rectangle (x, y, w, h) up to a few pixels on every coordinate
Approximates(q, x, y, w, h) ==
    /\ AbsDiff(q.left, x) <= 3 /\ AbsDiff(q.top, y) <= 3
    /\ AbsDiff(q.width, w) <= 3 /\ AbsDiff(q.height, h) <= 3

\* the rectangles a detection call returns, as regions
Detected ==
    IF fn = "preprocess_for_ocr" THEN to_regions(final_rects) ELSE boxes

DetectionDone == Done("detect_regions") \/ Done("preprocess_for_ocr")

----------------------------------------------------------------------------
(* C11: scenario B.  On a light image that holds exactly one solid dark    *)
(* 200 x 100 rectangle at (50, 50), detection returns exactly one region,  *)
(* and that region approximates the dark rectangle (left 50, top 50, width *)
(* 200, height 100), not the background or the whole page.                 *)
C11_ScenarioBOneRegion ==
    (DetectionDone /\ image \in ScenarioB) =>
        /\ Len(Detected) = 1
        /\ Approximates(Detected[1], 50, 50, 200, 100)

----------------------------------------------------------------------------
(* C12: scenario C.  On an 800 x 600 light canvas with two dark 100 x 100  *)
(* squares at (0, 0) and (700, 500), detect_regions returns exactly two    *)
(* regions, one per square, the square at the origin first.                *)
C12_ScenarioCTwoRegions ==
    (Done("detect_regions") /\ image \in ScenarioC) =>
        /\ Len(boxes) = 2
        /\ Approximates(boxes[1], 0, 0, 100, 100)
        /\ Approximates(boxes[2], 700, 500, 100, 100)

----------------------------------------------------------------------------
(* C13: one pass of suppression is a fixed point: applying                 *)
(* suppress_nested_boxes to its own output returns that output unchanged,  *)
(* for every pool and ratio, chains of containment included; and applying  *)
(* it (at 0.8) to the list detect_regions returns removes nothing.         *)
C13_SuppressionIdempotent ==
    /\ Done("suppress_nested_boxes") =>
          suppress_nested_boxes(boxes, subsume_ratio) = boxes
    /\ Done("detect_regions") =>
          suppress_nested_boxes(boxes, default_subsume_ratio) = boxes

\* a chain: the first region is dominated by the second only, the second by
\* the third, and one pass leaves the third alone
C13_Witness ==
    /\ Done("suppress_nested_boxes")
    /\ AllPositive(regions)
    /\ Len(regions) = 3
    /\ Dominates(regions[2], regions[1], subsume_ratio)
    /\ Dominates(regions[3], regions[2], subsume_ratio)
    /\ ~Dominates(regions[3], regions[1], subsume_ratio)
    /\ boxes = <<regions[3]>>

----------------------------------------------------------------------------
(* C14: with threshold T = 240, a pixel of gray value p is foreground in   *)
(* the direct mask exactly when p > T, and foreground in the inverse mask  *)
(* exactly when p < 300 - T (strictly less than 60).  On an image of one   *)
(* gray value a mask has a contour exactly when that value is foreground.  *)
C14_DualThresholdMasks ==
    /\ (Done("detect_regions") /\ image.uniform) =>
          /\ (rects_fixed # <<>>) <=> (image.g > fixed_threshold)
          /\ (rects_inv # <<>>) <=> (image.g < 300 - fixed_threshold)
    /\ (Done("preprocess_for_ocr") /\ image.uniform
            /\ image.W = 100 /\ image.H = 100) =>
          /\ (rects1[1] # <<>>) <=> (image.g > fixed_threshold)
          /\ (rects2[1] # <<>>) <=> (image.g < 300 - fixed_threshold)

----------------------------------------------------------------------------
(* C15: for each of the two masks preprocess_for_ocr runs 1 + N settings   *)
(* in a fixed order, the undilated baseline first and then the N kernel    *)
(* trials in list order, and keeps one filtered list per setting (1 + N    *)
(* per mask); the pool handed to the suppression loop is the concatenation *)
(* of these lists, all lists of the direct mask before all lists of the    *)
(* inverse mask.                                                           *)
PerSetting == rects1 \o rects2

OffsetOf(k) ==
    LET F[i \in 0..Len(PerSetting)] ==
            IF i = 0 THEN 0 ELSE F[i-1] + Len(PerSetting[i])
    IN F[k - 1]

\* every rectangle of list idx of a mask is a contour of setting idx - 1
FromSetting(lists, mask) ==
    \A idx \in DOMAIN lists : \A i \in DOMAIN lists[idx] :
        \E c \in DOMAIN contours :
            /\ contours[c].mask = mask
            /\ contours[c].trial = idx - 1
            /\ contours[c].rect = lists[idx][i]

C15_TrialOrder ==
    Done("preprocess_for_ocr") =>
        /\ Len(rects1) = 1 + Len(kernel_trials)
        /\ Len(rects2) = 1 + Len(kernel_trials)
        /\ Len(flat_rects) = OffsetOf(Len(PerSetting) + 1)
        /\ \A k \in DOMAIN PerSetting : \A i \in DOMAIN PerSetting[k] :
              flat_rects[OffsetOf(k) + i] = PerSetting[k][i]
        /\ (image = PageImage) =>
              FromSetting(rects1, "direct") /\ FromSetting(rects2, "inverse")
        /\ (image \in ScenarioC /\ image.g <= fixed_threshold) =>
              rects2[1] = << <<0, 0, 100, 100>>, <<700, 500, 100, 100>> >>

\* a contour of the second trial of the direct mask lies in the pool before a
\* contour of the baseline of the inverse mask
C15_Witness ==
    /\ Done("preprocess_for_ocr")
    /\ image = PageImage
    /\ Len(contours) = 2
    /\ contours[1].rect # contours[2].rect
    /\ rects1[3] = <<contours[1].rect>>
    /\ rects2[1] = <<contours[2].rect>>
    /\ flat_rects = <<contours[1].rect, contours[2].rect>>

----------------------------------------------------------------------------
(* C16: every region suppress_nested_boxes returns has width > 0 and       *)
(* height > 0, whatever list of regions it is given.                       *)
C16_ReturnedRegionsPositive ==
    Done("suppress_nested_boxes") =>
        \A i \in DOMAIN boxes : boxes[i].width > 0 /\ boxes[i].height > 0

----------------------------------------------------------------------------
(* C17: detection is deterministic and stateless.  The list a call of      *)
(* detect_regions returns (values and order) depends only on the image of  *)
(* that call: it is the list a call running alone returns for that image,  *)
(* whatever calls on other images run before it or interleaved with it, on *)
(* the same or on another adapter instance; two calls on the same image    *)
(* return the same list.                                                   *)
AloneResult(img) ==
    LET blurred == GaussianBlur(img)
        flat == collect_rects(th_fixed(blurred), <<>>)
                    \o collect_rects(th_fixed_inv(blurred), <<>>)
    IN sort_top_left(to_regions(detect_final_rects(flat)))

----------------------------------------------------------------------------
(* Download worker: vocabulary of the claims                               *)

\* requests under way: replies that have not signalled yet, running threads
InFlight ==
    Cardinality({i \in DOMAIN dl_replies : dl_replies[i].state = "inflight"})
    + Cardinality({i \in DOMAIN dl_threads : dl_threads[i].state = "running"})

\* positions of the log that hold signal sig
SignalsAt(sig) == {n \in DOMAIN dl_signals : dl_signals[n].sig = sig}

\* the values of the progress signals, in order of emission
ProgressValues ==
    LET F[n \in 0..Len(dl_signals)] ==
            IF n = 0 THEN <<>>
            ELSE IF dl_signals[n].sig = "progress"
                 THEN Append(F[n-1], dl_signals[n].k) ELSE F[n-1]
    IN F[Len(dl_signals)]

\* nothing is pending on the event loop and finished has been emitted
DownloadOver ==
    /\ dl_pc = "started" /\ dl_timers = 0
    /\ \A i \in DOMAIN dl_replies : dl_replies[i].state = "done"
    /\ \A i \in DOMAIN dl_threads : dl_threads[i].state = "done"
    /\ SignalsAt("finished") # {}

----------------------------------------------------------------------------
(* C18: the download worker downloads sequentially and in order.  At any   *)
(* time at most one request (reply or fallback thread) is in flight; the   *)
(* request for url k + 1 is not started before url k was finalised (its    *)
(* progress emitted); no progress value exceeds len(urls) and no url is    *)
(* finalised twice; and when the run is over, every url was finalised      *)
(* exactly once, in order, and added + errors equals the number of urls -  *)
(* whatever the replies yield, failed replies (which deliver errorOccurred *)
(* and finished) included.  Stated for runs in which cancel() is not       *)
(* called.                                                                 *)
C18_SequentialInOrder ==
    ~dl._cancel =>
        /\ InFlight <= 1
        /\ \A n \in SignalsAt("get") : \A j \in 1..(dl_signals[n].k - 1) :
              \E m \in SignalsAt("progress") : m < n /\ dl_signals[m].k = j
        /\ \A m \in SignalsAt("progress") : dl_signals[m].k <= Len(dl._urls)
        /\ \A m, n \in SignalsAt("progress") :
              m # n => dl_signals[m].k # dl_signals[n].k
        /\ DownloadOver =>
              /\ ProgressValues = [k \in 1..Len(dl._urls) |-> k]
              /\ dl._added + dl._errors = Len(dl._urls)

----------------------------------------------------------------------------
(* OCR worker: vocabulary of the claims                                    *)

\* the signals of the log, cancel() calls and prints left out
OcrEmitted ==
    LET F[n \in 0..Len(ocr_signals)] ==
            IF n = 0 THEN <<>>
            ELSE IF ocr_signals[n].sig \notin {"cancel", "print"}
                 THEN Append(F[n-1], ocr_signals[n]) ELSE F[n-1]
    IN F[Len(ocr_signals)]

IsItemSignal(e) == e.sig \in {"itemFinished", "itemError"}

OcrCount(sig) ==
    Cardinality({n \in DOMAIN OcrEmitted : OcrEmitted[n].sig = sig})

\* item signal, progress, item signal, progress, ..., then finished at most
\* once and last; the k-th progress carries (k, total)
OcrProtocol ==
    LET E == OcrEmitted
    IN /\ \A n \in DOMAIN E :
             /\ IsItemSignal(E[n]) =>
                   /\ n % 2 = 1
                   /\ E[n].item = (n + 1) \div 2
                   /\ (E[n].sig = "itemFinished") <=> (ocr._items[E[n].item] = "ok")
             /\ E[n].sig = "progress" =>
                   /\ n % 2 = 0 /\ IsItemSignal(E[n-1])
                   /\ E[n].done = n \div 2 /\ E[n].total = Len(ocr._items)
             /\ E[n].sig = "finished" =>
                   /\ n = Len(E) /\ n % 2 = 1
                   /\ E[n].done = (n - 1) \div 2
                   /\ E[n].done <= Len(ocr._items)
       /\ OcrCount("finished") <= 1

\* no loop body is entered behind a call of cancel(): the only item signals
\* behind the call belong to the item that was under way
NoItemAfterCancel ==
    \A c, b \in DOMAIN ocr_signals :
        (ocr_signals[c].sig = "cancel" /\ ocr_signals[b].sig = "print") => b < c

----------------------------------------------------------------------------
----------------------------------------------------------------------------
(* C20: starting from a missing or duplicate-free JSON file, after any     *)
(* sequence of save_jisho_response calls, with any response items (items   *)
(* without a slug included), no two entries of the stored array have the   *)
(* same slug, and no call appends an entry whose slug the file already     *)
(* held.                                                                   *)
StoredSlugs(file) == { file.array[i].slug : i \in DOMAIN file.array }

C20_NoDuplicateSlugs ==
    /\ \A i, j \in DOMAIN jisho_json.array :
          i # j => jisho_json.array[i].slug # jisho_json.array[j].slug
    /\ \A i \in DOMAIN jisho_json.array :
          i > Len(jisho_before.array) =>
              jisho_json.array[i].slug \notin StoredSlugs(jisho_before)

----------------------------------------------------------------------------
(* C21: after start() the download worker emits finished exactly once      *)
(* (Completed or Cancelled); behind it no request is started and no        *)
(* progress, itemReady or itemError is emitted - whatever the replies      *)
(* yield (success, error, SSL error with fallback) and whenever cancel()   *)
(* is called.                                                              *)
DownloadQuiescent ==
    /\ dl_pc = "started" /\ dl_timers = 0
    /\ \A i \in DOMAIN dl_replies : dl_replies[i].state = "done"
    /\ \A i \in DOMAIN dl_threads : dl_threads[i].state = "done"

C21_FinishedExactlyOnce ==
    /\ Cardinality(SignalsAt("finished")) <= 1
    /\ \A n \in SignalsAt("finished") : n = Len(dl_signals)
    /\ DownloadQuiescent => Cardinality(SignalsAt("finished")) = 1

----------------------------------------------------------------------------
(* C22: once cancel() was called on a running download (a request in       *)
(* flight, a fallback thread running, or between two items), no request is *)
(* started any more, and - replies in flight and fallback threads          *)
(* reporting back, pending timers firing - finished is eventually emitted  *)
(* with cancelled = True.                                                  *)
NoGetAfterCancel ==
    dl._cancel =>
        \A n \in DOMAIN dl_signals' :
            n > Len(dl_signals) => dl_signals'[n].sig # "get"

CancelledWhileRunning == dl._cancel /\ SignalsAt("finished") = {}

FinishedCancelled ==
    \E n \in SignalsAt("finished") : dl_signals[n].cancelled

C22_CancelStopsAndFinishes ==
    /\ [][NoGetAfterCancel]_vars
    /\ CancelledWhileRunning ~> FinishedCancelled

\* cancel() fell on the request of the first of two urls; the second url was
\* never requested and finished reports the cancellation
C22_Witness ==
    /\ dl_pc = "started" /\ dl._cancel
    /\ Len(dl._urls) = 2
    /\ Len(dl_signals) > 0 /\ dl_signals[1] = Get(1)
    /\ \A n \in SignalsAt("get") : dl_signals[n].k = 1
    /\ FinishedCancelled

----------------------------------------------------------------------------
\* the settings of contours_and_overlay that use the 5 x 10 kernel
Trial5x10 == {idx \in DOMAIN settings : settings[idx][1] = 5 /\ settings[idx][2] = 10}

----------------------------------------------------------------------------
(* C24: when on_item_finished has run, every text handed to setOcrBlocks   *)
(* stands under the id of the rectangle from whose crop it was recognised  *)
(* (the rectangle with id f"{panel_id}_{i}" is the one whose crop was      *)
(* number i), and the handler does not fail - whatever the single crops    *)
(* did (raised, no block, several blocks) and whatever was edited in       *)
(* between.                                                                *)
C24_TextUnderItsRectangle ==
    /\ assoc_pc # "raised"
    /\ assoc_pc = "stored"
       => \A k \in DOMAIN blocks_with_ids :
             blocks_with_ids[k].id = << blocks_with_ids[k].text.crop - 1 >>

----------------------------------------------------------------------------
\* caller c is inside its with-block
InsideWith(c) == fl[c].pc = "in"

----------------------------------------------------------------------------
\* positions of the pool whose region the suppression loop reached (positive
\* area; in detect_regions: past the size tests) and did not return
DroppedBySuppressor ==
    { i \in DOMAIN SuppressorPool :
        /\ RArea(SuppressorPool[i]) > 0
        /\ fn = "detect_regions" => InBounds(SuppressorPool[i])
        /\ SuppressorPool[i] \notin Range(SuppressorOutput) }

\* the positions reached from position i by steps from a region to a pool
\* region that dominates it
RECURSIVE ChainClosure(_, _, _)
ChainClosure(pool, ratio, S) ==
    LET T == S \cup { j \in DOMAIN pool :
                        \E k \in S : Dominates(pool[j], pool[k], ratio) }
    IN IF T = S THEN S ELSE ChainClosure(pool, ratio, T)

ChainFrom(pool, ratio, i) == ChainClosure(pool, ratio, {i})

SuppressionDone ==
    /\ pc = "done"
    /\ fn \in {"suppress_nested_boxes", "detect_regions", "preprocess_for_ocr"}

(* C26 as claimed: for every region R the suppressor drops, a region of    *)
(* the returned list has a larger area and covers at least subsume_ratio   *)
(* of R's area.                                                            *)
C26_DroppedHasKeptDominator ==
    SuppressionDone
    => \A i \in DroppedBySuppressor :
          \E k \in DOMAIN SuppressorOutput :
              Dominates(SuppressorOutput[k], SuppressorPool[i], SuppressorRatio)

(* C26 amended: for every region R of positive area the suppressor drops,  *)
(* a region of the pool it walks has a larger area and covers at least     *)
(* subsume_ratio of R's area; that region may have been dropped itself.    *)
(* In suppress_nested_boxes and preprocess_for_ocr a chain of such regions *)
(* leads from R to a returned region.                                      *)
C26_DroppedHasDominatorInPool ==
    SuppressionDone
    => \A i \in DroppedBySuppressor :
          /\ \E j \in DOMAIN SuppressorPool :
                Dominates(SuppressorPool[j], SuppressorPool[i], SuppressorRatio)
          /\ fn # "detect_regions"
             => \E k \in ChainFrom(SuppressorPool, SuppressorRatio, i) :
                   SuppressorPool[k] \in Range(SuppressorOutput)

\* a dropped region that no returned region dominates: the region that
\* dominated it was dropped as well
C26_Witness ==
    /\ Done("suppress_nested_boxes")
    /\ \E i \in DroppedBySuppressor :
          /\ ~\E k \in DOMAIN boxes : Dominates(boxes[k], regions[i], subsume_ratio)
          /\ \E j \in DroppedBySuppressor : Dominates(regions[j], regions[i], subsume_ratio)

----------------------------------------------------------------------------
\* positions of the pool that pass the size filter (suppress_nested_boxes
\* has none: every position)
SizeFilterPassed ==
    { i \in DOMAIN SuppressorPool :
        fn = "detect_regions" => InBounds(SuppressorPool[i]) }

\* the positions among K that hold a region of the largest area
LargestOf(K) ==
    { i \in K : \A j \in K : RArea(SuppressorPool[j]) <= RArea(SuppressorPool[i]) }

(* C27: suppression never empties a non-empty pool.  Every region of       *)
(* maximal area among the candidates that pass the size filter is in the   *)
(* output, so the list detect_regions, preprocess_for_ocr or               *)
(* suppress_nested_boxes (on regions of positive area) returns is not      *)
(* empty when a candidate passes the size filter.                          *)
C27_MaxAreaCandidateKept ==
    (/\ SuppressionDone
     /\ \A i \in DOMAIN SuppressorPool : RArea(SuppressorPool[i]) > 0)
    => /\ \A i \in LargestOf(SizeFilterPassed) :
             SuppressorPool[i] \in Range(SuppressorOutput)
       /\ SizeFilterPassed # {} => SuppressorOutput # <<>>

----------------------------------------------------------------------------
\* region a lies within region b
Within(a, b) ==
    /\ b.left <= a.left /\ a.left + a.width <= b.left + b.width
    /\ b.top <= a.top /\ a.top + a.height <= b.top + b.height

WholeImage == [left |-> 0, top |-> 0, width |-> image.W, height |-> image.H]

\* the settings of contours_and_overlay that dilate
DilationTrials == {idx \in DOMAIN settings : settings[idx][3] > 0}

====
